---- MODULE Spec2Model ----
(***************************************************************************)
(* Model of GitService (gitstats): getGitStats, getBranches,               *)
(* generateDateRange, runGitLog and the parse-and-fold loop.               *)
(*                                                                         *)
(* Text is a sequence of tokens.  A token is a one-character string where  *)
(* the code looks inside the text (digits, sign, tab, newline, space,      *)
(* '<', '>', '/', '*') and a whole word where it does not (a name, an      *)
(* e-mail address, a path, a YYYY-MM-DD label, the sentinel --SPLIT--).    *)
(* A JavaScript number is a record [nan, v]; NaN has nan = TRUE.           *)
(* An object used as a map is a function; a missing key is a key outside   *)
(* its DOMAIN.                                                             *)
(***************************************************************************)
EXTENDS Integers, Sequences, FiniteSets, TLC

(* ------------------------------------------------------------------ *)
(* Bounds                                                              *)
(* ------------------------------------------------------------------ *)

\* Largest number of entries in the history text the log command returns.
MaxEntries == 2

\* Largest number of invocations of the gitstats.helloWorld command.
MaxCommands == 2

\* Largest number of invocations of loadInitialData.
MaxLoads == 2

\* Largest number of 'refresh-stats' messages.
MaxRefresh == 2

(* ------------------------------------------------------------------ *)
(* String primitives of the JavaScript runtime                         *)
(* ------------------------------------------------------------------ *)

WhiteSpace == {" ", "\t", "\n"}

\* The text from its first token that is not white space.
TrimStart(s) ==
    IF \A i \in 1..Len(s) : s[i] \in WhiteSpace THEN << >>
    ELSE SubSeq(s, CHOOSE i \in 1..Len(s) :
                      s[i] \notin WhiteSpace /\ \A j \in 1..(i - 1) : s[j] \in WhiteSpace,
                Len(s))

\* The text up to its last token that is not white space.
TrimEnd(s) ==
    IF \A i \in 1..Len(s) : s[i] \in WhiteSpace THEN << >>
    ELSE SubSeq(s, 1, CHOOSE i \in 1..Len(s) :
                         s[i] \notin WhiteSpace /\ \A j \in (i + 1)..Len(s) : s[j] \in WhiteSpace)

\* String.prototype.trim
Trim(s) == TrimEnd(TrimStart(s))

\* String.prototype.split(sep) for a one-token separator: always at least
\* one part, the empty text gives one empty part.
RECURSIVE SplitFrom(_, _, _, _)
SplitFrom(s, sep, i, start) ==
    IF i > Len(s) THEN << SubSeq(s, start, Len(s)) >>
    ELSE IF s[i] = sep
    THEN << SubSeq(s, start, i - 1) >> \o SplitFrom(s, sep, i + 1, i + 1)
    ELSE SplitFrom(s, sep, i + 1, start)

Split(s, sep) == SplitFrom(s, sep, 1, 1)

\* Array.prototype.join(sep)
RECURSIVE Join(_, _)
Join(parts, sep) ==
    IF parts = << >> THEN << >>
    ELSE IF Len(parts) = 1 THEN parts[1]
    ELSE parts[1] \o << sep >> \o Join(Tail(parts), sep)

\* String.prototype.includes(sub)
Includes(s, sub) ==
    \E i \in 1..(Len(s) + 1) :
        /\ i + Len(sub) - 1 <= Len(s)
        /\ SubSeq(s, i, i + Len(sub) - 1) = sub

\* String.prototype.replace(tok, '') : removes the first occurrence only.
ReplaceFirst(s, tok) ==
    IF \E i \in 1..Len(s) : s[i] = tok
    THEN LET i == CHOOSE k \in 1..Len(s) :
                     s[k] = tok /\ \A j \in 1..(k - 1) : s[j] /= tok
         IN SubSeq(s, 1, i - 1) \o SubSeq(s, i + 1, Len(s))
    ELSE s

(* ------------------------------------------------------------------ *)
(* JavaScript numbers                                                  *)
(* ------------------------------------------------------------------ *)

NaN == [nan |-> TRUE, v |-> 0]
Num(n) == [nan |-> FALSE, v |-> n]

\* a + b
JsAdd(a, b) == IF a.nan \/ b.nan THEN NaN ELSE Num(a.v + b.v)
\* a - b
JsSub(a, b) == IF a.nan \/ b.nan THEN NaN ELSE Num(a.v - b.v)

\* (m[k] || 0) : undefined, NaN and 0 are falsy.
OrZero(m, k) ==
    IF k \in DOMAIN m /\ ~m[k].nan THEN m[k] ELSE Num(0)

DigitChars == {"0", "1", "2", "3", "4", "5", "6", "7", "8", "9"}

DigitVal(c) ==
    CASE c = "0" -> 0 [] c = "1" -> 1 [] c = "2" -> 2 [] c = "3" -> 3
      [] c = "4" -> 4 [] c = "5" -> 5 [] c = "6" -> 6 [] c = "7" -> 7
      [] c = "8" -> 8 [] c = "9" -> 9

\* Value of the longest prefix of digits of s, read in base 10; -1 if s
\* does not start with a digit.
RECURSIVE DigitsPrefix(_, _, _)
DigitsPrefix(s, i, acc) ==
    IF i <= Len(s) /\ s[i] \in DigitChars
    THEN DigitsPrefix(s, i + 1, 10 * (IF acc < 0 THEN 0 ELSE acc) + DigitVal(s[i]))
    ELSE acc

\* parseInt(s, 10): leading white space, an optional sign, the longest run
\* of digits; NaN when there is no digit.  It never throws.
ParseInt(s) ==
    LET t    == TrimStart(s)
        neg  == t /= << >> /\ Head(t) = "-"
        body == IF t /= << >> /\ Head(t) \in {"-", "+"} THEN Tail(t) ELSE t
        n    == DigitsPrefix(body, 1, -1)
    IN IF n < 0 THEN NaN ELSE Num(IF neg THEN 0 - n ELSE n)

(* ------------------------------------------------------------------ *)
(* Maps                                                                *)
(* ------------------------------------------------------------------ *)

EmptyMap == << >>

MapSet(m, k, val) ==
    [x \in (DOMAIN m) \cup {k} |-> IF x = k THEN val ELSE m[x]]

(* ------------------------------------------------------------------ *)
(* Calendar: Date, date-fns format                                     *)
(* ------------------------------------------------------------------ *)

\* The day labels the model knows, consecutive calendar days in ascending
\* order.  A Date is a number of milliseconds; the first label's UTC
\* midnight is instant MsPerDay.
Calendar == << "2023-12-31", "2024-01-01", "2024-01-02", "2024-01-03", "2024-01-04" >>

MsPerDay == 86400000
MsPerHour == 3600000

\* Position of a label in the calendar (the day number).
DayIndex(label) == CHOOSE i \in 1..Len(Calendar) : Calendar[i] = label

IsDayLabel(str) == Len(str) = 1 /\ \E i \in 1..Len(Calendar) : Calendar[i] = str[1]

\* new Date('YYYY-MM-DD'): a date-only ISO string is read as UTC midnight.
NewDate(str) == DayIndex(str[1]) * MsPerDay

\* The local calendar day an instant falls on, for a host whose local time
\* is UTC + off hours.
LocalDay(t, off) == (t + off * MsPerHour) \div MsPerDay

\* Date.prototype.setHours(23, 59, 59, 999): last instant of the local day.
SetHoursEndOfDay(t, off) ==
    LocalDay(t, off) * MsPerDay + (MsPerDay - 1) - off * MsPerHour

\* format(date, 'yyyy-MM-dd') of date-fns: the local calendar day.
FormatDate(t, off) == << Calendar[LocalDay(t, off)] >>

\* The while loop of generateDateRange.
RECURSIVE DateLoop(_, _, _)
DateLoop(current, endDate, off) ==
    IF current <= endDate
    THEN << FormatDate(current, off) >> \o DateLoop(current + MsPerDay, endDate, off)
    ELSE << >>

\* generateDateRange(startDate, endDate)
generateDateRange(startDt, endDt, off) ==
    DateLoop(startDt, SetHoursEndOfDay(endDt, off), off)

\* Array.prototype.sort() on day labels: for fixed-width YYYY-MM-DD labels
\* the lexicographic order is the calendar order.
RECURSIVE SortLabels(_)
SortLabels(S) ==
    IF S = {} THEN << >>
    ELSE LET m == CHOOSE x \in S : \A y \in S : DayIndex(x[1]) <= DayIndex(y[1])
         IN << m >> \o SortLabels(S \ {m})

(* ------------------------------------------------------------------ *)
(* History parser and aggregator (the loop of getGitStats)             *)
(* ------------------------------------------------------------------ *)

Sentinel == "--SPLIT--"

\* authorLine.match(/(.*) <(.*)>/): both groups are greedy, so the name
\* ends at the last ' <' that still has a '>' after it and the e-mail ends
\* at the last '>'.
MatchStarts(line) ==
    { i \in 1..Len(line) :
        /\ i + 1 <= Len(line)
        /\ line[i] = " " /\ line[i + 1] = "<"
        /\ \E j \in (i + 2)..Len(line) : line[j] = ">" }

AuthorMatch(line) ==
    IF MatchStarts(line) = {} THEN [ok |-> FALSE, name |-> << >>, email |-> << >>]
    ELSE LET i == CHOOSE k \in MatchStarts(line) : \A m \in MatchStarts(line) : m <= k
             j == CHOOSE k \in (i + 2)..Len(line) :
                      line[k] = ">" /\ \A m \in (k + 1)..Len(line) : line[m] /= ">"
         IN [ok |-> TRUE, name |-> SubSeq(line, 1, i - 1), email |-> SubSeq(line, i + 2, j - 1)]

\* The five maps getGitStats allocates before the loop.
EmptyTotals ==
    [authorNames |-> EmptyMap, addedLines |-> EmptyMap, removedLines |-> EmptyMap,
     netLines |-> EmptyMap, commitsByDate |-> EmptyMap]

\* NumstatLine with the totals overwritten instead of accumulated
\* (addedLines[email] = added).
NumstatLine_Overwrite(acc, email, line) ==
    LET parts == Split(Trim(line), "\t") IN
    IF Len(parts) = 3
    THEN LET added   == IF parts[1] /= << "-" >> THEN ParseInt(parts[1]) ELSE Num(0)
             removed == IF parts[2] /= << "-" >> THEN ParseInt(parts[2]) ELSE Num(0)
         IN [acc EXCEPT
               !.addedLines   = MapSet(acc.addedLines, email, added),
               !.removedLines = MapSet(acc.removedLines, email, removed),
               !.netLines     = MapSet(acc.netLines, email, JsSub(added, removed))]
    ELSE acc

\* Body of the inner for loop: one line of an accepted entry.
NumstatLine(acc, email, line) ==
    LET parts == Split(Trim(line), "\t") IN
    IF Len(parts) = 3
    THEN LET added   == IF parts[1] /= << "-" >> THEN ParseInt(parts[1]) ELSE Num(0)
             removed == IF parts[2] /= << "-" >> THEN ParseInt(parts[2]) ELSE Num(0)
         IN [acc EXCEPT
               !.addedLines   = MapSet(acc.addedLines, email, JsAdd(OrZero(acc.addedLines, email), added)),
               !.removedLines = MapSet(acc.removedLines, email, JsAdd(OrZero(acc.removedLines, email), removed)),
               !.netLines     = MapSet(acc.netLines, email, JsAdd(OrZero(acc.netLines, email), JsSub(added, removed)))]
    ELSE acc

RECURSIVE NumstatLoop(_, _, _, _)
NumstatLoop(acc, email, lines, i) ==
    IF i > Len(lines) THEN acc
    ELSE NumstatLoop(NumstatLine(acc, email, lines[i]), email, lines, i + 1)

\* (commitsByDate[date][email] || 0) + 1, creating the inner map if needed.
CountCommit(cbd, date, email) ==
    LET inner == IF date \in DOMAIN cbd THEN cbd[date] ELSE EmptyMap
        old   == IF email \in DOMAIN inner THEN inner[email] ELSE 0
    IN MapSet(cbd, date, MapSet(inner, email, old + 1))

\* FoldCommit without "if (!match) continue": an unparsable author line is
\* taken as a name with an empty e-mail.
FoldCommit_NoMatchCheck(acc, commit) ==
    LET lines == Split(Trim(commit), "\n") IN
    IF Len(lines) < 2 THEN acc
    ELSE LET date  == Trim(lines[1])
             m     == AuthorMatch(Trim(lines[2]))
             match == IF m.ok THEN m ELSE [ok |-> TRUE, name |-> Trim(lines[2]), email |-> << >>]
         IN NumstatLoop(
              [acc EXCEPT
                 !.authorNames   = MapSet(acc.authorNames, match.email, match.name),
                 !.commitsByDate = CountCommit(acc.commitsByDate, date, match.email)],
              match.email, lines, 3)

\* FoldCommit with authorNames keyed by the name (authorNames[name] = email).
FoldCommit_NamesKeyedByName(acc, commit) ==
    LET lines == Split(Trim(commit), "\n") IN
    IF Len(lines) < 2 THEN acc
    ELSE LET date  == Trim(lines[1])
             match == AuthorMatch(Trim(lines[2]))
         IN IF ~match.ok THEN acc
            ELSE NumstatLoop(
                   [acc EXCEPT
                      !.authorNames   = MapSet(acc.authorNames, match.name, match.email),
                      !.commitsByDate = CountCommit(acc.commitsByDate, date, match.email)],
                   match.email, lines, 3)

\* FoldCommit with the name kept from the first entry of an e-mail
\* (authorNames[email] assigned only when missing).
FoldCommit_FirstNameWins(acc, commit) ==
    LET lines == Split(Trim(commit), "\n") IN
    IF Len(lines) < 2 THEN acc
    ELSE LET date  == Trim(lines[1])
             match == AuthorMatch(Trim(lines[2]))
         IN IF ~match.ok THEN acc
            ELSE NumstatLoop(
                   [acc EXCEPT
                      !.authorNames   = IF match.email \in DOMAIN acc.authorNames
                                        THEN acc.authorNames
                                        ELSE MapSet(acc.authorNames, match.email, match.name),
                      !.commitsByDate = CountCommit(acc.commitsByDate, date, match.email)],
                   match.email, lines, 3)

\* Body of the outer for loop: one fragment between two sentinels.
FoldCommit(acc, commit) ==
    LET lines == Split(Trim(commit), "\n") IN
    IF Len(lines) < 2 THEN acc
    ELSE LET date  == Trim(lines[1])
             match == AuthorMatch(Trim(lines[2]))
         IN IF ~match.ok THEN acc
            ELSE NumstatLoop(
                   [acc EXCEPT
                      !.authorNames   = MapSet(acc.authorNames, match.email, match.name),
                      !.commitsByDate = CountCommit(acc.commitsByDate, date, match.email)],
                   match.email, lines, 3)

RECURSIVE FoldCommits(_, _, _)
FoldCommits(acc, commits, i) ==
    IF i > Len(commits) THEN acc
    ELSE FoldCommits(FoldCommit(acc, commits[i]), commits, i + 1)

\* output.split('--SPLIT--') and the loop over the fragments.
ParseAndFold(output) == FoldCommits(EmptyTotals, Split(output, Sentinel), 1)

(* ------------------------------------------------------------------ *)
(* Branch catalog (the two forEach bodies of getBranches)              *)
(* ------------------------------------------------------------------ *)

\* .split('\n').filter(line => line.trim().length > 0)
NonBlankLines(text) == SelectSeq(Split(text, "\n"), LAMBDA l : Len(Trim(l)) > 0)

\* Local listing: strip the first '*' and trim; the branch is stored under
\* its own name.
LocalBranchLine(cat, line) ==
    LET name == Trim(ReplaceFirst(line, "*"))
    IN MapSet(cat, name, [type |-> "local", fullName |-> name])

\* RemoteBranchLine with the branch stored under its bare name
\* (branches[name] instead of branches[displayName]).
RemoteBranchLine_KeyedByName(cat, line) ==
    LET fullName == Trim(line)
        parts    == Split(fullName, "/")
    IN IF Includes(fullName, << "HEAD", " ", "->" >>) THEN cat
       ELSE IF Len(parts) >= 2
       THEN LET name == Join(Tail(parts), "/")
            IN MapSet(cat, name, [type |-> "remote", fullName |-> fullName])
       ELSE cat

\* Remote listing: skip 'HEAD ->' lines; '<remote>/<branch>' is stored
\* under '<branch> (<remote>)'.
RemoteBranchLine(cat, line) ==
    LET fullName == Trim(line)
        parts    == Split(fullName, "/")
    IN IF Includes(fullName, << "HEAD", " ", "->" >>) THEN cat
       ELSE IF Len(parts) >= 2
       THEN LET remote      == parts[1]
                name        == Join(Tail(parts), "/")
                displayName == name \o << " ", "(" >> \o remote \o << ")" >>
            IN MapSet(cat, displayName, [type |-> "remote", fullName |-> fullName])
       ELSE cat

RECURSIVE AddLocalBranches(_, _, _)
AddLocalBranches(cat, lines, i) ==
    IF i > Len(lines) THEN cat
    ELSE AddLocalBranches(LocalBranchLine(cat, lines[i]), lines, i + 1)

RECURSIVE AddRemoteBranches(_, _, _)
AddRemoteBranches(cat, lines, i) ==
    IF i > Len(lines) THEN cat
    ELSE AddRemoteBranches(RemoteBranchLine(cat, lines[i]), lines, i + 1)

(* ------------------------------------------------------------------ *)
(* Command lines                                                       *)
(* ------------------------------------------------------------------ *)

CurrentBranchCmd == << << "rev-parse" >>, << "--abbrev-ref" >>, << "HEAD" >> >>

ShowRefCmd(branch) ==
    << << "show-ref" >>, << "--quiet" >>, << "--verify" >>, << "refs/heads/" >> \o branch >>

LocalListCmd == << << "branch" >> >>

RemoteListCmd == << << "branch" >>, << "-r" >> >>

\* LogCmd with the upper cutoff taken from the first piece of dateRange
\* (dateRange.split(' ')[0] in both places).
LogCmd_BeforeIsFirstPiece(dateRange, branch) ==
    LET pieces == Split(dateRange, " ")
        after  == IF dateRange /= << >> /\ Includes(dateRange, << "--after=" >>)
                  THEN << pieces[1] >> ELSE << >>
        before == IF dateRange /= << >> /\ Includes(dateRange, << "--before=" >>)
                  THEN << pieces[1] >> ELSE << >>
    IN << << "log" >>, branch >> \o after \o before
       \o << << "--pretty=format:--SPLIT--%n%ad%n%an <%ae>" >>,
             << "--date=short" >>, << "--numstat" >> >>

\* runGitLog: the argument list handed to executeGitCommand.  dateRange is
\* the empty text when the code holds null (both are falsy).
LogCmd(dateRange, branch) ==
    LET pieces == Split(dateRange, " ")
        after  == IF dateRange /= << >> /\ Includes(dateRange, << "--after=" >>)
                  THEN << pieces[1] >> ELSE << >>
        before == IF dateRange /= << >> /\ Includes(dateRange, << "--before=" >>)
                  THEN << IF Len(pieces) > 1 THEN pieces[2] ELSE dateRange >> ELSE << >>
    IN << << "log" >>, branch >> \o after \o before
       \o << << "--pretty=format:--SPLIT--%n%ad%n%an <%ae>" >>,
             << "--date=short" >>, << "--numstat" >> >>

IsLogCmd(cmd) == cmd[1] = << "log" >>

(* ------------------------------------------------------------------ *)
(* Inputs and environment                                              *)
(* ------------------------------------------------------------------ *)

D1 == "2024-01-01"
D3 == "2024-01-03"

\* Entries (the text between two sentinels) the history may contain.
EntryPool ==
    { \* Ann, 10 added, 2 removed
      << D1, "\n", "Ann", " ", "<", "a@x", ">", "\n", "\n", "1", "0", "\t", "2", "\t", "f" >>,
      \* Ann, same day, 5 added, 0 removed
      << D1, "\n", "Ann", " ", "<", "a@x", ">", "\n", "\n", "5", "\t", "0", "\t", "g" >>,
      \* Bob, a binary file and a text file
      << D3, "\n", "Bob", " ", "<", "b@x", ">", "\n", "\n", "-", "\t", "-", "\t", "img", "\n", "2", "\t", "5", "\t", "g" >>,
      \* the a@x author under another name, no numstat line
      << D3, "\n", "Al", " ", "<", "a@x", ">" >>,
      \* a numstat line with a non-numeric field, then a good line
      << D1, "\n", "Ann", " ", "<", "a@x", ">", "\n", "\n", "x", "\t", "3", "\t", "f", "\n", "5", "\t", "1", "\t", "g" >>,
      \* no 'Name <email>' on the second line
      << D1, "\n", "nobody", "\n", "\n", "5", "\t", "0", "\t", "f" >> }

RECURSIVE Render(_)
Render(h) ==
    IF h = << >> THEN << >>
    ELSE << Sentinel, "\n" >> \o Head(h) \o << "\n", "\n" >> \o Render(Tail(h))

\* The texts git log may print.
Histories ==
    { Render(h) : h \in UNION { [1..n -> EntryPool] : n \in 0..MaxEntries } }

\* Host time zones: local time is UTC + off hours.
TimeZones == { -5, 0, 2 }

Absent == << >>
All == << "all" >>

StartArgs == { Absent, All, << D1 >>, << D3 >> }
EndArgs == { Absent, All, << D1 >>, << D3 >> }
BranchArgs ==
    { Absent, << "main" >>, << "nope" >>, << "origin", "/", "main" >>, << "feat", "/", "nope" >> }

\* refs/heads/* of the repository.
LocalBranches == { << "main" >>, << "dev" >> }

\* refs/remotes/* of the repository.
RemoteRefs == { << "origin", "/", "main" >> }

\* git log <branch> prints a history only for a revision that resolves.
Resolves(b) == b \in LocalBranches \cup RemoteRefs

\* Output of rev-parse --abbrev-ref HEAD (HEAD when detached).
CurrentBranchOutputs == { << "main", "\n" >>, << "HEAD", "\n" >> }

\* Output of git branch.
LocalOutputs ==
    { << >>,
      << "*", " ", "main", "\n", " ", " ", "dev", "\n" >> }

\* Output of git branch -r.
RemoteOutputs ==
    { << >>,
      << " ", " ", "origin", "/", "HEAD", " ", "->", " ", "origin", "/", "main", "\n",
         " ", " ", "origin", "/", "main", "\n",
         " ", " ", "origin", "/", "feat", "/", "x", "\n",
         " ", " ", "upstream", "/", "main", "\n" >> }

\* Standard error of a git process that ends with a non-zero status.
Fatal == << "fatal: not a git repository" >>

(* ------------------------------------------------------------------ *)
(* State                                                               *)
(* ------------------------------------------------------------------ *)

VARIABLES
    pc,            \* the await getGitStats is suspended at
    tz,            \* time zone of the host
    startDateArg, endDateArg, branchArg,   \* arguments of the call
    branchName,    \* the parameter after resolution
    dateRange, dateList, startDate, endDate,
    output,        \* text returned by runGitLog
    totals,        \* authorNames, addedLines, removedLines, netLines, commitsByDate
    branches,      \* catalog built by getBranches
    listings,      \* standard output of the listing commands that succeeded
    cmds,          \* argument lists handed to executeGitCommand, in order
    rejections,    \* rejections of executeGitCommand, in order
    thrown,        \* the error getGitStats rejects with
    calls,         \* the local variables of each of two calls in flight
    proc,          \* one invocation of executeGitCommand and its child process
    ext            \* the variables of activate() and the panels of the extension

\* The variables of the single call.
oneCall == << pc, startDateArg, endDateArg, branchArg, branchName, dateRange,
              dateList, startDate, endDate, output, totals, branches, listings,
              cmds, rejections, thrown >>

vars == << oneCall, tz, calls, proc, ext >>

NoError == [kind |-> "none", text |-> << >>]

\* reject(new Error(`Git error: ${stderr}`))
GitError(stderr) == [kind |-> "GitError", text |-> << "Git error: " >> \o stderr]

\* new Error(`Branch '${branchName}' does not exist.`)
BranchNotExist(b) ==
    [kind |-> "BranchNotExist", text |-> << "Branch '" >> \o b \o << "' does not exist." >>]

NullList == [null |-> TRUE, list |-> << >>]
List(l) == [null |-> FALSE, list |-> l]

\* executeGitCommand before it is called: no process, empty buffers, a
\* promise that has not been settled.
IdleProc ==
    [state |-> "none", args |-> << >>, argv |-> << >>,
     run |-> [out |-> << >>, err |-> << >>, code |-> 0],
     out |-> << >>, err |-> << >>, stdout |-> << >>, stderr |-> << >>,
     spawned |-> 0, settlements |-> << >>]

\* Invocations of the command, panels (one per invocation at most),
\* invocations of loadInitialData, 'refresh-stats' requests.
CommandIds == 1..MaxCommands
PanelIds == 1..MaxCommands
LoadIds == 1..MaxLoads
RequestIds == 1..MaxRefresh

\* What the html of a panel shows: nothing, the branches, the statistics
\* of the initial load, or the statistics of 'refresh-stats' request req.
Content(kind, req) == [kind |-> kind, req |-> req]

\* activate(): initialDataLoaded = false, panel = undefined (0),
\* gitRepositories = [] (its length), no panel, no handler running.
ExtInit ==
    [initialDataLoaded |-> FALSE,
     panel |-> 0,
     gitRepositories |-> 0,
     cmd |-> [c \in CommandIds |-> "idle"],
     created |-> 0,
     live |-> {},
     webview |-> [q \in PanelIds |-> "none"],
     content |-> [q \in PanelIds |-> Content("empty", 0)],
     ready |-> [q \in PanelIds |-> FALSE],
     loadedInto |-> [q \in PanelIds |-> FALSE],
     loads |-> [k \in LoadIds |-> "none"],
     nLoads |-> 0,
     started |-> [q \in PanelIds |-> 0],
     issued |-> 0,
     inflight |-> {}]

\* Two invocations of getGitStats on one GitService.
CallIds == { 1, 2 }

\* The parameters and local variables of an invocation that has not
\* started, and the standard outputs its commands have delivered.
IdleFrame ==
    [pc |-> "idle",
     startDateArg |-> Absent, endDateArg |-> Absent, branchArg |-> Absent,
     branchName |-> Absent,
     dateRange |-> << >>, dateList |-> NullList,
     startDate |-> << "Beginning" >>, endDate |-> << "Now" >>,
     output |-> << >>, totals |-> EmptyTotals, branches |-> EmptyMap,
     replies |-> << >>, thrown |-> NoError]

Init ==
    /\ pc = "idle"
    /\ tz \in TimeZones
    /\ startDateArg = Absent /\ endDateArg = Absent /\ branchArg = Absent
    /\ branchName = Absent
    /\ dateRange = << >>
    /\ dateList = NullList
    /\ startDate = << "Beginning" >>
    /\ endDate = << "Now" >>
    /\ output = << >>
    /\ totals = EmptyTotals
    /\ branches = EmptyMap
    /\ listings = << >>
    /\ cmds = << >>
    /\ rejections = << >>
    /\ thrown = NoError
    /\ calls = [i \in CallIds |-> IdleFrame]
    /\ proc = IdleProc
    /\ ext = ExtInit

(* ------------------------------------------------------------------ *)
(* getGitStats, one action per segment between two awaits              *)
(* ------------------------------------------------------------------ *)

\* ConfigureDates with a one-sided cutoff when only one date is given.
ConfigureDates_OneSidedCutoff(s, e, off) ==
    IF s = All
    THEN [dateRange |-> IF e /= Absent THEN << "--before=" >> \o e ELSE << >>,
          dateList  |-> NullList,
          startDate |-> << "Beginning" >>,
          endDate   |-> << "Now" >>]
    ELSE IF s /= Absent /\ s /= All /\ e /= Absent /\ e /= All
    THEN [dateRange |-> << "--after=" >> \o s \o << " ", "--before=" >> \o e,
          dateList  |-> List(generateDateRange(NewDate(s), NewDate(e), off)),
          startDate |-> s,
          endDate   |-> e]
    ELSE [dateRange |-> IF s /= Absent THEN << "--after=" >> \o s
                        ELSE IF e \notin { Absent, All } THEN << "--before=" >> \o e
                        ELSE << >>,
          dateList  |-> NullList,
          startDate |-> << "Beginning" >>,
          endDate   |-> << "Now" >>]

\* ConfigureDates with the end date ignored when the start is "all"
\* (dateRange left null).
ConfigureDates_AllIgnoresEnd(s, e, off) ==
    IF s = All
    THEN [dateRange |-> << >>,
          dateList  |-> NullList,
          startDate |-> << "Beginning" >>,
          endDate   |-> << "Now" >>]
    ELSE IF s /= Absent /\ s /= All /\ e /= Absent /\ e /= All
    THEN [dateRange |-> << "--after=" >> \o s \o << " ", "--before=" >> \o e,
          dateList  |-> List(generateDateRange(NewDate(s), NewDate(e), off)),
          startDate |-> s,
          endDate   |-> e]
    ELSE [dateRange |-> << >>,
          dateList  |-> NullList,
          startDate |-> << "Beginning" >>,
          endDate   |-> << "Now" >>]

\* "Configure date range": the values of dateRange, dateList, startDate
\* and endDate when runGitLog is called.
ConfigureDates(s, e, off) ==
    IF s = All
    THEN [dateRange |-> IF e /= Absent THEN << "--before=" >> \o e ELSE << >>,
          dateList  |-> NullList,
          startDate |-> << "Beginning" >>,
          endDate   |-> << "Now" >>]
    ELSE IF s /= Absent /\ s /= All /\ e /= Absent /\ e /= All
    THEN [dateRange |-> << "--after=" >> \o s \o << " ", "--before=" >> \o e,
          dateList  |-> List(generateDateRange(NewDate(s), NewDate(e), off)),
          startDate |-> s,
          endDate   |-> e]
    ELSE [dateRange |-> << >>,
          dateList  |-> NullList,
          startDate |-> << "Beginning" >>,
          endDate   |-> << "Now" >>]

\* From "Configure date range" to the await on runGitLog.
RunLog(b, s, e) ==
    LET cfg == ConfigureDates(s, e, tz) IN
    /\ dateRange' = cfg.dateRange
    /\ dateList' = cfg.dateList
    /\ startDate' = cfg.startDate
    /\ endDate' = cfg.endDate
    /\ cmds' = Append(cmds, LogCmd(cfg.dateRange, b))
    /\ pc' = "runGitLog"

\* "For remote branches, we don't need to check if they exist".
NeedsValidation(b) == ~Includes(b, << "/" >>)

\* Validate without the existence check: the history is queried at once.
Validate_Skipped(b, s, e) == RunLog(b, s, e)

\* From the resolved branch name to the next await.
Validate(b, s, e) ==
    IF NeedsValidation(b)
    THEN /\ cmds' = Append(cmds, ShowRefCmd(b))
         /\ pc' = "branchExists"
         /\ UNCHANGED << dateRange, dateList, startDate, endDate >>
    ELSE RunLog(b, s, e)

\* getGitStats(workspacePath, s, e, b) up to its first await.
Call ==
    /\ pc = "idle"
    /\ \E s \in StartArgs, e \in EndArgs, b \in BranchArgs :
         /\ startDateArg' = s
         /\ endDateArg' = e
         /\ branchArg' = b
         /\ branchName' = b
         /\ IF b = Absent
            THEN /\ cmds' = Append(cmds, CurrentBranchCmd)
                 /\ pc' = "getCurrentBranch"
                 /\ UNCHANGED << dateRange, dateList, startDate, endDate >>
            ELSE Validate(b, s, e)
    /\ UNCHANGED << tz, output, totals, branches, listings, rejections, thrown, calls, proc, ext >>

\* rev-parse --abbrev-ref HEAD has ended; getCurrentBranch rethrows.
CurrentBranchDone ==
    /\ pc = "getCurrentBranch"
    /\ \/ /\ rejections' = Append(rejections, [step |-> "getCurrentBranch", err |-> GitError(Fatal)])
          /\ thrown' = GitError(Fatal)
          /\ pc' = "threw"
          /\ UNCHANGED << branchName, dateRange, dateList, startDate, endDate, cmds >>
       \/ \E o \in CurrentBranchOutputs :
            /\ branchName' = Trim(o)
            /\ Validate(Trim(o), startDateArg, endDateArg)
            /\ UNCHANGED << rejections, thrown >>
    /\ UNCHANGED << tz, startDateArg, endDateArg, branchArg, output, totals, branches, listings,
                    calls, proc, ext >>

\* show-ref --quiet --verify has ended; branchExists turns any rejection
\* into false.  The process ends with status 0 only for an existing ref,
\* with status 1 and no message for a missing one, and with a fatal error
\* whenever git cannot read the repository.
BranchExistsDone ==
    /\ pc = "branchExists"
    /\ \/ /\ branchName \in LocalBranches
          /\ RunLog(branchName, startDateArg, endDateArg)
          /\ UNCHANGED << rejections, thrown >>
       \/ \E stderr \in (IF branchName \in LocalBranches THEN { Fatal } ELSE { << >>, Fatal }) :
            /\ rejections' = Append(rejections, [step |-> "branchExists", err |-> GitError(stderr)])
            /\ thrown' = BranchNotExist(branchName)
            /\ pc' = "threw"
            /\ UNCHANGED << dateRange, dateList, startDate, endDate, cmds >>
    /\ UNCHANGED << tz, startDateArg, endDateArg, branchArg, branchName, output, totals,
                    branches, listings, calls, proc, ext >>

\* ResolveAxis without the sort: Object.keys in the order of a log that
\* lists the newest day first.
ResolveAxis_Unsorted(dl, s, e, cbd) ==
    IF dl.null
    THEN LET sorted == SortLabels(DOMAIN cbd)
             keys   == [i \in 1..Len(sorted) |-> sorted[Len(sorted) + 1 - i]]
         IN [dateList  |-> List(keys),
             startDate |-> IF Len(keys) > 0 THEN keys[1] ELSE s,
             endDate   |-> IF Len(keys) > 0 THEN keys[Len(keys)] ELSE e]
    ELSE [dateList |-> dl, startDate |-> s, endDate |-> e]

\* ResolveAxis with the labels of the date range setup kept in sparse mode.
ResolveAxis_KeepsLabels(dl, s, e, cbd) ==
    IF dl.null
    THEN [dateList |-> List(SortLabels(DOMAIN cbd)), startDate |-> s, endDate |-> e]
    ELSE [dateList |-> dl, startDate |-> s, endDate |-> e]

\* ResolveAxis with the labels left unset when no date was observed.
ResolveAxis_NoFallback(dl, s, e, cbd) ==
    IF dl.null
    THEN LET keys == SortLabels(DOMAIN cbd) IN
         [dateList  |-> List(keys),
          startDate |-> IF Len(keys) > 0 THEN keys[1] ELSE << >>,
          endDate   |-> IF Len(keys) > 0 THEN keys[Len(keys)] ELSE << >>]
    ELSE [dateList |-> dl, startDate |-> s, endDate |-> e]

\* "If dates weren't specified, use commit dates".
ResolveAxis(dl, s, e, cbd) ==
    IF dl.null
    THEN LET keys == SortLabels(DOMAIN cbd) IN
         [dateList  |-> List(keys),
          startDate |-> IF Len(keys) > 0 THEN keys[1] ELSE s,
          endDate   |-> IF Len(keys) > 0 THEN keys[Len(keys)] ELSE e]
    ELSE [dateList |-> dl, startDate |-> s, endDate |-> e]

\* git log has ended: parse, fold, resolve the axis, call getBranches.
LogDone ==
    /\ pc = "runGitLog"
    /\ \/ /\ rejections' = Append(rejections, [step |-> "runGitLog", err |-> GitError(Fatal)])
          /\ thrown' = GitError(Fatal)
          /\ pc' = "threw"
          /\ UNCHANGED << dateList, startDate, endDate, output, totals, cmds >>
       \/ \E text \in Histories :
            LET t    == ParseAndFold(text)
                axis == ResolveAxis(dateList, startDate, endDate, t.commitsByDate)
            IN /\ Resolves(branchName)
               /\ output' = text
               /\ totals' = t
               /\ dateList' = axis.dateList
               /\ startDate' = axis.startDate
               /\ endDate' = axis.endDate
               /\ cmds' = Append(cmds, LocalListCmd)
               /\ pc' = "getBranchesLocal"
               /\ UNCHANGED << rejections, thrown >>
    /\ UNCHANGED << tz, startDateArg, endDateArg, branchArg, branchName, dateRange,
                    branches, listings, calls, proc, ext >>

\* What the catch block of getBranches returns.
CatalogOnFailure == EmptyMap

\* git branch has ended.
LocalListDone ==
    /\ pc = "getBranchesLocal"
    /\ \/ /\ rejections' = Append(rejections, [step |-> "getBranchesLocal", err |-> GitError(Fatal)])
          /\ branches' = CatalogOnFailure
          /\ pc' = "returned"
          /\ UNCHANGED << cmds, listings >>
       \/ \E o \in LocalOutputs :
            /\ branches' = AddLocalBranches(EmptyMap, NonBlankLines(o), 1)
            /\ listings' = Append(listings, o)
            /\ cmds' = Append(cmds, RemoteListCmd)
            /\ pc' = "getBranchesRemote"
            /\ UNCHANGED rejections
    /\ UNCHANGED << tz, startDateArg, endDateArg, branchArg, branchName, dateRange,
                    dateList, startDate, endDate, output, totals, thrown, calls, proc, ext >>

\* git branch -r has ended; getGitStats returns.
RemoteListDone ==
    /\ pc = "getBranchesRemote"
    /\ \/ /\ rejections' = Append(rejections, [step |-> "getBranchesRemote", err |-> GitError(Fatal)])
          /\ branches' = CatalogOnFailure
          /\ UNCHANGED listings
       \/ \E o \in RemoteOutputs :
            /\ branches' = AddRemoteBranches(branches, NonBlankLines(o), 1)
            /\ listings' = Append(listings, o)
            /\ UNCHANGED rejections
    /\ pc' = "returned"
    /\ UNCHANGED << tz, startDateArg, endDateArg, branchArg, branchName, dateRange,
                    dateList, startDate, endDate, output, totals, cmds, thrown, calls, proc, ext >>

Next ==
    \/ Call
    \/ CurrentBranchDone
    \/ BranchExistsDone
    \/ LogDone
    \/ LocalListDone
    \/ RemoteListDone

Spec == Init /\ [][Next]_vars

(* ------------------------------------------------------------------ *)
(* Two invocations of getGitStats whose awaits interleave              *)
(* ------------------------------------------------------------------ *)

\* Arguments (startDateArg, endDateArg, branchName) of the two calls.
TwoCallArgs ==
    { [s |-> Absent, e |-> Absent, b |-> Absent],
      [s |-> << D1 >>, e |-> << D3 >>, b |-> << "main" >>],
      [s |-> All, e |-> << D3 >>, b |-> << "origin", "/", "main" >>],
      [s |-> Absent, e |-> Absent, b |-> << "nope" >>] }

\* The texts git log may print for either call.
TwoCallHistories ==
    { << >>,
      Render(<< << D1, "\n", "Ann", " ", "<", "a@x", ">", "\n", "\n", "1", "0", "\t", "2", "\t", "f" >> >>),
      Render(<< << D3, "\n", "Bob", " ", "<", "b@x", ">", "\n", "\n", "2", "\t", "5", "\t", "g" >> >>) }

\* The frame from "Configure date range" to the await on runGitLog.
FrameRunLog(c, off) ==
    LET cfg == ConfigureDates(c.startDateArg, c.endDateArg, off)
    IN [c EXCEPT !.dateRange = cfg.dateRange, !.dateList = cfg.dateList,
                 !.startDate = cfg.startDate, !.endDate = cfg.endDate,
                 !.pc = "runGitLog"]

\* The frame from the resolved branch name to the next await.
FrameValidate(c, off) ==
    IF NeedsValidation(c.branchName)
    THEN [c EXCEPT !.pc = "branchExists"]
    ELSE FrameRunLog(c, off)

\* Invocation i starts and runs to its first await.
CallOf(i) ==
    /\ calls[i].pc = "idle"
    /\ \E a \in TwoCallArgs :
         LET c == [IdleFrame EXCEPT !.startDateArg = a.s, !.endDateArg = a.e,
                                    !.branchArg = a.b, !.branchName = a.b]
         IN calls' = [calls EXCEPT ![i] =
                        IF a.b = Absent THEN [c EXCEPT !.pc = "getCurrentBranch"]
                        ELSE FrameValidate(c, tz)]
    /\ UNCHANGED << oneCall, tz, proc, ext >>

\* rev-parse of invocation i has ended.
CurrentBranchDoneOf(i) ==
    /\ calls[i].pc = "getCurrentBranch"
    /\ \/ calls' = [calls EXCEPT ![i].pc = "threw", ![i].thrown = GitError(Fatal)]
       \/ \E o \in CurrentBranchOutputs :
            calls' = [calls EXCEPT ![i] =
                        FrameValidate([calls[i] EXCEPT !.branchName = Trim(o),
                                                       !.replies = Append(@, o)], tz)]
    /\ UNCHANGED << oneCall, tz, proc, ext >>

\* show-ref of invocation i has ended.
BranchExistsDoneOf(i) ==
    /\ calls[i].pc = "branchExists"
    /\ \/ /\ calls[i].branchName \in LocalBranches
          /\ calls' = [calls EXCEPT ![i] = FrameRunLog(calls[i], tz)]
       \/ calls' = [calls EXCEPT ![i].pc = "threw",
                                 ![i].thrown = BranchNotExist(calls[i].branchName)]
    /\ UNCHANGED << oneCall, tz, proc, ext >>

\* LogDoneOf with the five maps held by the service and shared by the
\* invocations instead of allocated per call.
LogDoneOf_SharedMaps(i) ==
    /\ calls[i].pc = "runGitLog"
    /\ \/ calls' = [calls EXCEPT ![i].pc = "threw", ![i].thrown = GitError(Fatal)]
       \/ \E text \in TwoCallHistories, other \in CallIds \ { i } :
            LET c    == calls[i]
                t    == FoldCommits(calls[other].totals, Split(text, Sentinel), 1)
                axis == ResolveAxis(c.dateList, c.startDate, c.endDate, t.commitsByDate)
            IN /\ Resolves(c.branchName)
               /\ calls' = [calls EXCEPT ![i] =
                     [c EXCEPT !.output = text, !.totals = t,
                               !.dateList = axis.dateList, !.startDate = axis.startDate,
                               !.endDate = axis.endDate, !.replies = Append(@, text),
                               !.pc = "getBranchesLocal"]]
    /\ UNCHANGED << oneCall, tz, proc, ext >>

\* git log of invocation i has ended: parse, fold into the maps of this
\* invocation, resolve the axis, call getBranches.
LogDoneOf(i) ==
    /\ calls[i].pc = "runGitLog"
    /\ \/ calls' = [calls EXCEPT ![i].pc = "threw", ![i].thrown = GitError(Fatal)]
       \/ \E text \in TwoCallHistories :
            LET c    == calls[i]
                t    == ParseAndFold(text)
                axis == ResolveAxis(c.dateList, c.startDate, c.endDate, t.commitsByDate)
            IN /\ Resolves(c.branchName)
               /\ calls' = [calls EXCEPT ![i] =
                     [c EXCEPT !.output = text, !.totals = t,
                               !.dateList = axis.dateList, !.startDate = axis.startDate,
                               !.endDate = axis.endDate, !.replies = Append(@, text),
                               !.pc = "getBranchesLocal"]]
    /\ UNCHANGED << oneCall, tz, proc, ext >>

\* git branch of invocation i has ended.
LocalListDoneOf(i) ==
    /\ calls[i].pc = "getBranchesLocal"
    /\ \/ calls' = [calls EXCEPT ![i].branches = CatalogOnFailure, ![i].pc = "returned"]
       \/ \E o \in LocalOutputs :
            calls' = [calls EXCEPT
                        ![i].branches = AddLocalBranches(EmptyMap, NonBlankLines(o), 1),
                        ![i].replies = Append(@, o),
                        ![i].pc = "getBranchesRemote"]
    /\ UNCHANGED << oneCall, tz, proc, ext >>

\* git branch -r of invocation i has ended; the invocation returns.
RemoteListDoneOf(i) ==
    /\ calls[i].pc = "getBranchesRemote"
    /\ \/ calls' = [calls EXCEPT ![i].branches = CatalogOnFailure, ![i].pc = "returned"]
       \/ \E o \in RemoteOutputs :
            calls' = [calls EXCEPT
                        ![i].branches = AddRemoteBranches(calls[i].branches, NonBlankLines(o), 1),
                        ![i].replies = Append(@, o),
                        ![i].pc = "returned"]
    /\ UNCHANGED << oneCall, tz, proc, ext >>

\* The object getGitStats returns.
ResultOf(c) ==
    [branches |-> c.branches,
     authorNames |-> c.totals.authorNames,
     addedLines |-> c.totals.addedLines,
     removedLines |-> c.totals.removedLines,
     netLines |-> c.totals.netLines,
     commitsByDate |-> c.totals.commitsByDate,
     dateList |-> c.dateList.list,
     startDate |-> c.startDate,
     endDate |-> c.endDate,
     branch |-> c.branchName]

NextTwoCalls ==
    \E i \in CallIds :
        \/ CallOf(i)
        \/ CurrentBranchDoneOf(i)
        \/ BranchExistsDoneOf(i)
        \/ LogDoneOf(i)
        \/ LocalListDoneOf(i)
        \/ RemoteListDoneOf(i)

SpecTwoCalls == Init /\ [][NextTwoCalls]_vars

(* ------------------------------------------------------------------ *)
(* executeGitCommand: one child process and its events                 *)
(* ------------------------------------------------------------------ *)

\* Argument lists executeGitCommand is called with; the last is a history
\* query for a branch parameter that contains a space.
ExecArgLists ==
    { CurrentBranchCmd,
      << << "rev-parse" >>, << "--git-dir" >> >>,
      ShowRefCmd(<< "main" >>),
      LogCmd(<< "--after=", D1, " ", "--before=", D3 >>, << "main" >>),
      LogCmd(<< >>, << "main", " ", "--all" >>) }

\* What a child process does: the chunks it writes to its standard output
\* and standard error, and its exit status (-1: ended by a signal, where
\* 'close' reports code null).
ProcessRuns ==
    [out  : { << >>, << << "main", "\n" >> >>, << << "main" >>, << "\n" >> >> },
     err  : { << >>, << Fatal >>, << << "warning: " >>, << "x" >> >> },
     code : { 0, 1, 128, -1 }]

\* The command line with the arguments joined by spaces and split into
\* words again by a shell (child_process.exec).
SpawnArgv_ShellJoin(args) == Split(Join(<< << "git" >> >> \o args, " "), " ")

\* child_process.spawn('git', args) without a shell: the child's argument
\* vector is the program name followed by the elements of args.
SpawnArgv(args) == << << "git" >> >> \o args

RECURSIVE Concat(_)
Concat(chunks) == IF chunks = << >> THEN << >> ELSE Head(chunks) \o Concat(Tail(chunks))

\* executeGitCommand(workspacePath, args): the promise executor spawns the
\* process and registers the three listeners.  The process starts, or
\* cannot be started (no git binary, no such working directory).
ExecuteGitCommand ==
    /\ proc.state = "none"
    /\ \E a \in ExecArgLists :
         \/ \E r \in ProcessRuns :
              proc' = [proc EXCEPT !.state = "running", !.args = a, !.argv = SpawnArgv(a),
                                   !.run = r, !.out = r.out, !.err = r.err,
                                   !.spawned = @ + 1]
         \/ proc' = [proc EXCEPT !.state = "spawnFailed", !.args = a, !.argv = SpawnArgv(a),
                                 !.spawned = @ + 1]
    /\ UNCHANGED << oneCall, tz, calls, ext >>

\* gitProcess.stdout.on('data'): stdout += data.toString()
StdoutData ==
    /\ proc.state = "running"
    /\ proc.out /= << >>
    /\ proc' = [proc EXCEPT !.stdout = @ \o Head(proc.out), !.out = Tail(@)]
    /\ UNCHANGED << oneCall, tz, calls, ext >>

\* gitProcess.stderr.on('data'): stderr += data.toString()
StderrData ==
    /\ proc.state = "running"
    /\ proc.err /= << >>
    /\ proc' = [proc EXCEPT !.stderr = @ \o Head(proc.err), !.err = Tail(@)]
    /\ UNCHANGED << oneCall, tz, calls, ext >>

\* gitProcess.on('close', code): emitted once, after the process has
\* ended and both streams have been read to their end.
OnClose(p) ==
    [p EXCEPT !.state = "closed",
              !.settlements =
                  IF p.run.code /= 0
                  THEN Append(@, [kind |-> "reject", value |-> GitError(p.stderr).text])
                  ELSE Append(@, [kind |-> "resolve", value |-> p.stdout])]

Close ==
    /\ proc.state = "running"
    /\ proc.out = << >> /\ proc.err = << >>
    /\ proc' = OnClose(proc)
    /\ UNCHANGED << oneCall, tz, calls, ext >>

\* The 'error' event of a process that could not be started.  No listener
\* is registered for it: the emitter throws, 'close' is not emitted, and
\* neither resolve nor reject is called.
SpawnError ==
    /\ proc.state = "spawnFailed"
    /\ proc' = [proc EXCEPT !.state = "errored"]
    /\ UNCHANGED << oneCall, tz, calls, ext >>

NextExec ==
    \/ ExecuteGitCommand
    \/ StdoutData
    \/ StderrData
    \/ Close
    \/ SpawnError

SpecExec == Init /\ [][NextExec]_vars

(* ------------------------------------------------------------------ *)
(* The extension: command, panel, webview messages                     *)
(* ------------------------------------------------------------------ *)

\* updateWebviewContent(stats): "if (panel) panel.webview.html = ...".
\* The webview of that panel loads the new document, whose script ends
\* with initialize().
updateWebviewContent(e, kind, req) ==
    IF e.panel = 0 THEN e
    ELSE [e EXCEPT !.content[e.panel] = Content(kind, req),
                   !.webview[e.panel] = "loading"]

\* The command handler up to "await findGitRepositories()".
HelloWorld(c) ==
    /\ ext.cmd[c] = "idle"
    /\ ext' = IF ext.panel /= 0
              THEN [ext EXCEPT !.cmd[c] = "done"]
              ELSE [ext EXCEPT !.cmd[c] = "scanning"]
    /\ UNCHANGED << oneCall, tz, calls, proc >>

\* findGitRepositories has returned n repositories: with none an error
\* message, otherwise a new panel, its first html and its two listeners.
ScanDone(c) ==
    /\ ext.cmd[c] = "scanning"
    /\ \E n \in { 0, 1 } :
         ext' = IF n = 0
                THEN [ext EXCEPT !.cmd[c] = "done", !.gitRepositories = 0]
                ELSE LET q == ext.created + 1
                     IN updateWebviewContent(
                            [ext EXCEPT !.cmd[c] = "done", !.gitRepositories = n,
                                        !.created = q, !.live = @ \cup { q },
                                        !.panel = q],
                            "empty", 0)
    /\ UNCHANGED << oneCall, tz, calls, proc >>

\* The user closes panel q: its onDidDispose listener runs
\* "panel = undefined".
Dispose(q) ==
    /\ q \in ext.live
    /\ ext' = [ext EXCEPT !.live = @ \ { q }, !.panel = 0, !.webview[q] = "none"]
    /\ UNCHANGED << oneCall, tz, calls, proc >>

\* "await loadInitialData(); initialDataLoaded = true" once
\* loadInitialData has returned.
FinishLoad(e, k) == [e EXCEPT !.loads[k] = "done", !.initialDataLoaded = TRUE]

\* The document of panel q has run initialize() and its 'extension-ready'
\* message is handled: loadInitialData is called when there is a
\* repository and initialDataLoaded is false; it returns at once without
\* a panel, otherwise it awaits the branches of the first repository.
ExtensionReady(q) ==
    /\ q \in ext.live
    /\ ext.webview[q] = "loading"
    /\ LET e == [ext EXCEPT !.webview[q] = "shown", !.ready[q] = TRUE]
           k == ext.nLoads + 1
       IN IF ext.gitRepositories > 0 /\ ~ext.initialDataLoaded
          THEN /\ ext.nLoads < MaxLoads
               /\ ext' = LET l == [e EXCEPT !.nLoads = k, !.started[q] = @ + 1]
                         IN IF l.panel = 0 THEN FinishLoad(l, k)
                            ELSE [l EXCEPT !.loads[k] = "branches"]
          ELSE ext' = e
    /\ UNCHANGED << oneCall, tz, calls, proc >>

\* handleRepositoryChanged(firstRepo, true) of load k has its branches:
\* it shows them, then refreshGitStats returns at once without a panel or
\* awaits getGitStats.
LoadBranchesDone(k) ==
    /\ ext.loads[k] = "branches"
    /\ ext' = LET e == updateWebviewContent(ext, "branches", 0)
              IN IF e.panel = 0 THEN FinishLoad(e, k)
                 ELSE [e EXCEPT !.loads[k] = "stats"]
    /\ UNCHANGED << oneCall, tz, calls, proc >>

\* getGitStats of load k has returned: the statistics are shown and the
\* handler sets initialDataLoaded.
LoadStatsDone(k) ==
    /\ ext.loads[k] = "stats"
    /\ ext' = LET e == updateWebviewContent(ext, "initial", 0)
              IN FinishLoad(IF e.panel = 0 THEN e
                            ELSE [e EXCEPT !.loadedInto[e.panel] = TRUE], k)
    /\ UNCHANGED << oneCall, tz, calls, proc >>

\* The user changes a control of panel q, whose selectors are filled: a
\* 'refresh-stats' message is handled; refreshGitStats returns at once
\* without a panel or awaits getGitStats.
RefreshStats(q) ==
    /\ q \in ext.live
    /\ ext.webview[q] = "shown"
    /\ ext.content[q].kind /= "empty"
    /\ ext.issued < MaxRefresh
    /\ ext' = [ext EXCEPT !.issued = @ + 1,
                          !.inflight = IF ext.panel = 0 THEN @ ELSE @ \cup { ext.issued + 1 }]
    /\ UNCHANGED << oneCall, tz, calls, proc >>

\* getGitStats of request r has returned: its statistics are shown.
RefreshDone(r) ==
    /\ r \in ext.inflight
    /\ ext' = [updateWebviewContent(ext, "refresh", r) EXCEPT !.inflight = @ \ { r }]
    /\ UNCHANGED << oneCall, tz, calls, proc >>

NextExt ==
    \/ \E c \in CommandIds : HelloWorld(c) \/ ScanDone(c)
    \/ \E q \in PanelIds : Dispose(q) \/ ExtensionReady(q) \/ RefreshStats(q)
    \/ \E k \in LoadIds : LoadBranchesDone(k) \/ LoadStatsDone(k)
    \/ \E r \in RequestIds : RefreshDone(r)

SpecExt == Init /\ [][NextExt]_vars

\* The webview and the awaited git commands make progress; the user's
\* actions (command, close, change of a control) need not happen.
FairSpecExt ==
    /\ SpecExt
    /\ \A c \in CommandIds : WF_vars(ScanDone(c))
    /\ \A q \in PanelIds : WF_vars(ExtensionReady(q))
    /\ \A k \in LoadIds : WF_vars(LoadBranchesDone(k)) /\ WF_vars(LoadStatsDone(k))
    /\ \A r \in RequestIds : WF_vars(RefreshDone(r))

(* ------------------------------------------------------------------ *)
(* Reference reading of a history text, used by the properties         *)
(* ------------------------------------------------------------------ *)

Fragments(text) == Split(text, Sentinel)

EntryLines(frag) == Split(Trim(frag), "\n")

\* A line of the shape 'Name <email>': a space, a '<' and a later '>'.
HasNameEmailShape(line) ==
    \E i \in 1..Len(line), j \in 1..Len(line) :
        /\ i + 1 < j
        /\ line[i] = " " /\ line[i + 1] = "<" /\ line[j] = ">"

IsAcceptedEntry(frag) ==
    LET lines == EntryLines(frag)
    IN Len(lines) >= 2 /\ HasNameEmailShape(Trim(lines[2]))

AcceptedEntries(text) == SelectSeq(Fragments(text), IsAcceptedEntry)

DroppedEntries(text) == SelectSeq(Fragments(text), LAMBDA f : ~IsAcceptedEntry(f))

\* The tab-separated fields of the three-field lines of an entry.
RECURSIVE ThreeFieldFrom(_, _)
ThreeFieldFrom(lines, i) ==
    IF i > Len(lines) THEN << >>
    ELSE LET parts == Split(Trim(lines[i]), "\t")
         IN (IF Len(parts) = 3 THEN << parts >> ELSE << >>) \o ThreeFieldFrom(lines, i + 1)

\* A field that is the placeholder '-' or a non-negative integer.
FieldIsCount(f) ==
    \/ f = << "-" >>
    \/ f /= << >> /\ \A i \in 1..Len(f) : f[i] \in DigitChars

RECURSIVE Decimal(_)
Decimal(f) ==
    IF f = << >> THEN 0
    ELSE 10 * Decimal(SubSeq(f, 1, Len(f) - 1)) + DigitVal(f[Len(f)])

FieldValue(f) == IF f = << "-" >> THEN 0 ELSE Decimal(f)

IsMalformedLine(parts) == ~FieldIsCount(parts[1]) \/ ~FieldIsCount(parts[2])

\* Sum of field k over the well-formed lines among parts-lists.
RECURSIVE SumField(_, _)
SumField(lines, k) ==
    IF lines = << >> THEN 0
    ELSE (IF IsMalformedLine(Head(lines)) THEN 0 ELSE FieldValue(Head(lines)[k]))
         + SumField(Tail(lines), k)

\* What an accepted entry says: its date, author and line counts.
RefEntry(frag) ==
    LET all    == EntryLines(frag)
        author == AuthorMatch(Trim(all[2]))
        lines  == ThreeFieldFrom(all, 3)
    IN
    [date      |-> Trim(all[1]),
     email     |-> author.email,
     name      |-> author.name,
     added     |-> SumField(lines, 1),
     removed   |-> SumField(lines, 2),
     good      |-> \E i \in 1..Len(lines) : ~IsMalformedLine(lines[i]),
     malformed |-> \E i \in 1..Len(lines) : IsMalformedLine(lines[i])]

RECURSIVE RefEntriesOf(_)
RefEntriesOf(frags) ==
    IF frags = << >> THEN << >>
    ELSE << RefEntry(Head(frags)) >> \o RefEntriesOf(Tail(frags))

\* The accepted entries of a history text, in order.
RefEntries(text) == RefEntriesOf(AcceptedEntries(text))

AnyMalformed(entries) == \E i \in 1..Len(entries) : entries[i].malformed

HasMalformedLine(text) == AnyMalformed(RefEntries(text))

\* Sums of the added and removed counts of author e.
RECURSIVE RefAdded(_, _)
RefAdded(entries, e) ==
    IF entries = << >> THEN 0
    ELSE (IF Head(entries).email = e THEN Head(entries).added ELSE 0)
         + RefAdded(Tail(entries), e)

RECURSIVE RefRemoved(_, _)
RefRemoved(entries, e) ==
    IF entries = << >> THEN 0
    ELSE (IF Head(entries).email = e THEN Head(entries).removed ELSE 0)
         + RefRemoved(Tail(entries), e)

\* Number of entries of author e dated d.
RefCount(entries, d, e) ==
    Cardinality({ i \in 1..Len(entries) : entries[i].date = d /\ entries[i].email = e })

RefEmails(text) ==
    LET entries == RefEntries(text) IN { entries[i].email : i \in 1..Len(entries) }

InnerKeys(cbd) == UNION { DOMAIN cbd[d] : d \in DOMAIN cbd }

\* The totals t are the sums and counts of the well-formed lines of text:
\* an author has a key in the line maps exactly when one of the author's
\* entries has such a line, and a (date, author) pair has a count exactly
\* when an accepted entry has that date and author.
TotalsMatchReference(entries, t) ==
    LET emails  == { entries[i].email : i \in 1..Len(entries) }
                     \cup DOMAIN t.addedLines \cup DOMAIN t.removedLines
                     \cup DOMAIN t.netLines \cup InnerKeys(t.commitsByDate)
        dates   == { entries[i].date : i \in 1..Len(entries) } \cup DOMAIN t.commitsByDate
    IN /\ \A e \in emails :
            IF \E i \in 1..Len(entries) : entries[i].email = e /\ entries[i].good
            THEN /\ e \in DOMAIN t.addedLines
                 /\ e \in DOMAIN t.removedLines
                 /\ e \in DOMAIN t.netLines
                 /\ t.addedLines[e] = Num(RefAdded(entries, e))
                 /\ t.removedLines[e] = Num(RefRemoved(entries, e))
                 /\ t.netLines[e] = Num(RefAdded(entries, e) - RefRemoved(entries, e))
            ELSE /\ e \notin DOMAIN t.addedLines
                 /\ e \notin DOMAIN t.removedLines
                 /\ e \notin DOMAIN t.netLines
       /\ \A d \in dates, e \in emails :
            IF RefCount(entries, d, e) > 0
            THEN /\ d \in DOMAIN t.commitsByDate
                 /\ e \in DOMAIN t.commitsByDate[d]
                 /\ t.commitsByDate[d][e] = RefCount(entries, d, e)
            ELSE ~(d \in DOMAIN t.commitsByDate /\ e \in DOMAIN t.commitsByDate[d])

\* The history text without the entries that are not accepted.
WithoutDropped(text) == Join(AcceptedEntries(text), Sentinel)

Returned == pc = "returned"

\* The loop over the entries has run: the five maps have the values the
\* call returns.
Folded == pc \in { "getBranchesLocal", "getBranchesRemote", "returned" }

(* ------------------------------------------------------------------ *)
(* Properties                                                          *)
(* ------------------------------------------------------------------ *)

\* C1: the maps getGitStats returns have the same keys in netLines,
\* addedLines and removedLines, and netLines[e] = addedLines[e] -
\* removedLines[e] for every key e, whatever the history text.
C1_NetIsAddedMinusRemoved ==
    Folded =>
        /\ DOMAIN totals.netLines = DOMAIN totals.addedLines
        /\ DOMAIN totals.netLines = DOMAIN totals.removedLines
        /\ \A e \in DOMAIN totals.netLines :
             /\ ~totals.netLines[e].nan
             /\ ~totals.addedLines[e].nan
             /\ ~totals.removedLines[e].nan
             /\ totals.netLines[e].v = totals.addedLines[e].v - totals.removedLines[e].v

\* C2: when every three-field line of the accepted entries carries counts
\* ('-' or a non-negative integer), the returned addedLines and
\* removedLines are the per-author sums of the first and second field
\* ('-' as 0) and commitsByDate counts the accepted entries per date and
\* author.
C2_FoldSums ==
    Returned =>
        LET entries == RefEntries(output)
        IN ~AnyMalformed(entries) => TotalsMatchReference(entries, totals)

\* C2 witness: the two same-day commits 10/2 and 5/0 of one author give
\* 15, 2, 13 and a count of 2.
C2_Witness ==
    /\ Returned
    /\ ~HasMalformedLine(output)
    /\ Len(AcceptedEntries(output)) = 2
    /\ << "a@x" >> \in DOMAIN totals.addedLines
    /\ totals.addedLines[<< "a@x" >>] = Num(15)
    /\ totals.removedLines[<< "a@x" >>] = Num(2)
    /\ totals.netLines[<< "a@x" >>] = Num(13)
    /\ totals.commitsByDate[<< D1 >>][<< "a@x" >>] = 2

\* C3: a three-field line with a field that is neither '-' nor a
\* non-negative integer is skipped: the totals the call returns are those
\* of the remaining lines and the entry is still counted.
C3_MalformedLineSkipped ==
    Folded =>
        LET entries == RefEntries(output)
        IN AnyMalformed(entries) => TotalsMatchReference(entries, totals)

\* C4: an entry with fewer than two lines or without 'Name <email>' on
\* its second line contributes nothing: the returned maps are those of
\* the history text without that entry.
C4_DroppedEntryContributesNothing ==
    Returned => totals = ParseAndFold(WithoutDropped(output))

\* C4 witness: a history with an accepted entry and an entry whose second
\* line has no 'Name <email>', returned with the accepted author only.
C4_Witness ==
    /\ Returned
    /\ Len(AcceptedEntries(output)) = 1
    /\ \E i \in 1..Len(DroppedEntries(output)) :
          Len(EntryLines(DroppedEntries(output)[i])) >= 2
    /\ DOMAIN totals.authorNames = RefEmails(output)

\* C5: in every returned result each e-mail key of addedLines,
\* removedLines, netLines and of the inner maps of commitsByDate is a key
\* of authorNames.
C5_KeysHaveNames ==
    Returned =>
        (DOMAIN totals.addedLines \cup DOMAIN totals.removedLines
            \cup DOMAIN totals.netLines \cup InnerKeys(totals.commitsByDate))
          \subseteq DOMAIN totals.authorNames

\* C5 witness: a returned result with line totals and commit counts for
\* two authors.
C5_Witness ==
    /\ Returned
    /\ Cardinality(DOMAIN totals.addedLines) = 2
    /\ Cardinality(InnerKeys(totals.commitsByDate)) = 2

\* Both date arguments are dates: the explicit-range mode.
DenseArgs ==
    /\ startDateArg \notin { Absent, All }
    /\ endDateArg \notin { Absent, All }

\* The call has got past the date range setup.
PastDateSetup == pc \in { "runGitLog", "getBranchesLocal", "getBranchesRemote", "returned" }

\* The labels of the calendar days from s to e.
DaysFromTo(s, e) ==
    [i \in 1..(DayIndex(e[1]) - DayIndex(s[1]) + 1) |-> << Calendar[DayIndex(s[1]) + i - 1] >>]

\* C6: a call whose branch argument names neither a local branch nor a
\* remote-tracking reference never issues a git log command, never
\* returns a result and fails with the branch-not-found error.
C6_UnknownBranchNeverRunsLog ==
    (branchArg /= Absent /\ branchArg \notin LocalBranches /\ branchArg \notin RemoteRefs) =>
        /\ \A i \in 1..Len(cmds) : ~IsLogCmd(cmds[i])
        /\ pc /= "returned"
        /\ (pc = "threw" => thrown.kind = "BranchNotExist")

\* C7: once a command of the call has failed (other than show-ref
\* reporting a missing ref), getGitStats returns no result and rejects
\* with that command's error.
C7_StepFailureAbortsWithOriginalError ==
    (\E i \in 1..Len(rejections) : rejections[i].err = GitError(Fatal)) =>
        /\ pc /= "returned"
        /\ (pc = "threw" => thrown = GitError(Fatal))

\* C8: getBranches does not return after a listing command failed, and
\* the catalog it returns is empty only when both listings printed
\* nothing.
C8_GetBranchesFailsOnListingFailure ==
    Returned =>
        /\ \A i \in 1..Len(rejections) :
             rejections[i].step \notin { "getBranchesLocal", "getBranchesRemote" }
        /\ (branches = EmptyMap => listings = << << >>, << >> >>)

\* C9: for an explicit range with start <= end the date axis is the
\* sequence of the calendar days from start to end, in every time zone.
C9_DenseAxisIsTheRange ==
    (PastDateSetup /\ DenseArgs /\ DayIndex(startDateArg[1]) <= DayIndex(endDateArg[1])) =>
        /\ ~dateList.null
        /\ dateList.list = DaysFromTo(startDateArg, endDateArg)

\* C10: with a start date strictly after the end date the date range
\* setup fails, so the call never reaches git log and returns no result.
C10_InvertedRangeFails ==
    (DenseArgs /\ DayIndex(startDateArg[1]) > DayIndex(endDateArg[1])) => ~PastDateSetup

\* The labels of a list are in strictly ascending calendar order, hence
\* without a duplicate.
StrictlyAscending(list) ==
    \A i \in 1..Len(list), j \in 1..Len(list) :
        i < j => DayIndex(list[i][1]) < DayIndex(list[j][1])

\* C11: in every returned result dateList is a list whose labels are in
\* ascending order without a duplicate, in dense and in sparse mode.
C11_AxisAscendingNoDuplicates ==
    Returned => ~dateList.null /\ StrictlyAscending(dateList.list)

\* C11 witness: a sparse-mode result whose log listed 2024-01-03 before
\* 2024-01-01 and whose axis has the two days in calendar order.
C11_Witness ==
    /\ Returned
    /\ ~DenseArgs
    /\ Len(output) > 3 /\ output[3] = D3
    /\ dateList.list = << << D1 >>, << D3 >> >>

\* The dates of the accepted entries of a history text.
AcceptedDates(text) ==
    LET a == AcceptedEntries(text)
    IN { Trim(EntryLines(a[i])[1]) : i \in 1..Len(a) }

\* The labels on an axis.
AxisLabels(list) == { list[i] : i \in 1..Len(list) }

\* The git log command lines the call has issued.
LogCmds == { cmds[i] : i \in { k \in 1..Len(cmds) : IsLogCmd(cmds[k]) } }

HasArg(cmd, arg) == \E j \in 1..Len(cmd) : cmd[j] = arg

\* An argument that starts with the given option text.
HasOption(cmd, opt) == \E j \in 1..Len(cmd) : cmd[j] /= << >> /\ cmd[j][1] = opt

\* The axis is exactly the distinct dates of the accepted entries, sorted.
SparseAxisOf(text) ==
    /\ ~dateList.null
    /\ StrictlyAscending(dateList.list)
    /\ AxisLabels(dateList.list) = AcceptedDates(text)

\* C12: in explicit-range mode every day from start to end is a label of
\* the axis, whether or not it has a commit, and commitsByDate has a key d
\* exactly when an accepted entry is dated d.
C12_DenseAxisSparseMap ==
    (Folded /\ DenseArgs) =>
        /\ ~dateList.null
        /\ \A k \in DayIndex(startDateArg[1])..DayIndex(endDateArg[1]) :
             << Calendar[k] >> \in AxisLabels(dateList.list)
        /\ DOMAIN totals.commitsByDate = AcceptedDates(output)

\* C13: with a start and an end date the git log command carries
\* --after=start and --before=end, the axis is the list generateDateRange
\* builds (one label per day of the range, whatever the commits), and the
\* start and end labels are the two arguments.
C13_ExplicitRange ==
    (PastDateSetup /\ DenseArgs) =>
        /\ LogCmds /= {}
        /\ \A cmd \in LogCmds :
             /\ HasArg(cmd, << "--after=" >> \o startDateArg)
             /\ HasArg(cmd, << "--before=" >> \o endDateArg)
        /\ dateList = List(generateDateRange(NewDate(startDateArg), NewDate(endDateArg), tz))
        /\ Len(dateList.list) =
             (IF DayIndex(endDateArg[1]) >= DayIndex(startDateArg[1])
              THEN DayIndex(endDateArg[1]) - DayIndex(startDateArg[1]) + 1 ELSE 0)
        /\ startDate = startDateArg
        /\ endDate = endDateArg

\* C13 witness: a result for 2024-01-01..2024-01-03 with a three-day
\* axis, more days than the history has dates.
C13_Witness ==
    /\ Returned
    /\ startDateArg = << D1 >> /\ endDateArg = << D3 >>
    /\ Len(dateList.list) = 3
    /\ Cardinality(DOMAIN totals.commitsByDate) = 1
    /\ \E cmd \in LogCmds : HasArg(cmd, << "--before=", D3 >>)

C15_NoDates ==
    (PastDateSetup /\ startDateArg = Absent /\ endDateArg = Absent) =>
        /\ LogCmds /= {}
        /\ \A cmd \in LogCmds : ~HasOption(cmd, "--after=") /\ ~HasOption(cmd, "--before=")
        /\ (Returned =>
              /\ SparseAxisOf(output)
              /\ (AcceptedDates(output) = {} =>
                    /\ dateList.list = << >>
                    /\ startDate = << "Beginning" >>
                    /\ endDate = << "Now" >>))

\* C15 witness: no dates given, a history whose only entry is dropped, an
\* empty axis and the two sentinel labels.
C15_Witness ==
    /\ Returned
    /\ startDateArg = Absent /\ endDateArg = Absent
    /\ output /= << >>
    /\ totals.commitsByDate = EmptyMap
    /\ dateList.list = << >>
    /\ startDate = << "Beginning" >> /\ endDate = << "Now" >>

\* A listing line without its white space and current-branch marker.
Stripped(line) == SelectSeq(line, LAMBDA t : t \notin WhiteSpace \cup { "*" })

\* The lines of a listing that name something.
ListingLines(text) ==
    LET ls == Split(text, "\n")
    IN { ls[i] : i \in { k \in 1..Len(ls) : Stripped(ls[k]) /= << >> } }

\* The branches git branch lists.
LocalNames(text) == { Stripped(l) : l \in ListingLines(text) }

IsHeadPointer(line) == \E i \in 1..Len(line) : line[i] = "->"

\* The '<remote>/<branch>' references git branch -r lists.
ListedRemotes(text) ==
    { Stripped(l) : l \in { x \in ListingLines(text) : ~IsHeadPointer(x) } }

\* '<branch> (<remote>)' for the reference '<remote>/<branch>'.
RemoteDisplay(ref) ==
    SubSeq(ref, 3, Len(ref)) \o << " ", "(", ref[1], ")" >>

\* C16: after both listings succeeded the catalog has, for every local
\* line, an entry of kind local under the stripped line with that name as
\* reference; for every remote line that is not a HEAD pointer, an entry
\* of kind remote under '<branch> (<remote>)' with the full reference; and
\* nothing else, so no HEAD pointer is listed and no two branches share an
\* entry.
C16_Catalog ==
    (Returned /\ Len(listings) = 2) =>
        LET locals  == LocalNames(listings[1])
            remotes == ListedRemotes(listings[2])
        IN /\ \A n \in locals :
                /\ n \in DOMAIN branches
                /\ branches[n] = [type |-> "local", fullName |-> n]
           /\ \A r \in remotes :
                /\ RemoteDisplay(r) \in DOMAIN branches
                /\ branches[RemoteDisplay(r)] = [type |-> "remote", fullName |-> r]
           /\ Cardinality(DOMAIN branches) = Cardinality(locals) + Cardinality(remotes)

\* C16 witness: local main (current) and dev, remote origin/main,
\* origin/feat/x and upstream/main behind a HEAD pointer line: five
\* entries, main three times under three names.
C16_Witness ==
    /\ Returned
    /\ Len(listings) = 2
    /\ Cardinality(DOMAIN branches) = 5
    /\ branches[<< "main" >>] = [type |-> "local", fullName |-> << "main" >>]
    /\ branches[<< "main", " ", "(", "origin", ")" >>] =
         [type |-> "remote", fullName |-> << "origin", "/", "main" >>]
    /\ branches[<< "feat", "/", "x", " ", "(", "origin", ")" >>].fullName =
         << "origin", "/", "feat", "/", "x" >>

\* Place of a command in the fixed order of one call.
Rank(cmd) ==
    CASE cmd = CurrentBranchCmd -> 1
      [] cmd[1] = << "show-ref" >> -> 2
      [] IsLogCmd(cmd) -> 3
      [] cmd = LocalListCmd -> 4
      [] cmd = RemoteListCmd -> 5

\* C17: the commands of a call are issued in the order current-branch
\* query, existence check, history query, local listing, remote listing,
\* each at most once; the current-branch query exactly when no branch was
\* given, the existence check only for a name without '/'; the history
\* query names the resolved branch and, for a name without '/', comes
\* after an existence check that succeeded; after a failed command no
\* further command is issued.
C17_CommandOrder ==
    /\ \A i \in 1..Len(cmds), j \in 1..Len(cmds) :
         i < j => Rank(cmds[i]) < Rank(cmds[j])
    /\ (pc /= "idle" =>
          ((\E i \in 1..Len(cmds) : Rank(cmds[i]) = 1) <=> branchArg = Absent))
    /\ \A i \in 1..Len(cmds) :
         Rank(cmds[i]) = 2 =>
            /\ cmds[i] = ShowRefCmd(branchName)
            /\ ~Includes(branchName, << "/" >>)
    /\ \A i \in 1..Len(cmds) :
         Rank(cmds[i]) = 3 =>
            /\ branchName /= Absent
            /\ cmds[i][2] = branchName
            /\ (~Includes(branchName, << "/" >>) =>
                  /\ \E k \in 1..(i - 1) : Rank(cmds[k]) = 2
                  /\ \A k \in 1..Len(rejections) : rejections[k].step /= "branchExists")
    /\ Len(rejections) <= 1
    /\ (rejections /= << >> => pc \in { "threw", "returned" })

\* C17 witness: a call without a branch argument that returned after all
\* five commands.
C17_Witness ==
    /\ Returned
    /\ branchArg = Absent
    /\ Len(cmds) = 5
    /\ cmds[2] = ShowRefCmd(<< "main" >>)
    /\ IsLogCmd(cmds[3])
    /\ cmds[5] = RemoteListCmd

\* Name and e-mail on the author line of each accepted entry, in the
\* order of the history text.
RefAuthors(text) ==
    LET a == AcceptedEntries(text)
    IN [i \in 1..Len(a) |-> AuthorMatch(Trim(EntryLines(a[i])[2]))]

\* C18: after the fold authorNames has a key for exactly the e-mails of
\* the accepted entries, and authorNames[e] is the name on the last
\* accepted entry with e-mail e in the order of the history text.
C18_LastNameWins ==
    Folded =>
        LET au == RefAuthors(output)
        IN /\ DOMAIN totals.authorNames = { au[i].email : i \in 1..Len(au) }
           /\ \A i \in 1..Len(au) :
                (\A j \in (i + 1)..Len(au) : au[j].email /= au[i].email) =>
                    totals.authorNames[au[i].email] = au[i].name

\* C18 witness: a@x listed first as Al, then as Ann: the name is Ann.
C18_Witness ==
    /\ Returned
    /\ Len(output) > 5 /\ output[5] = "Al"
    /\ << "a@x" >> \in DOMAIN totals.authorNames
    /\ totals.authorNames[<< "a@x" >>] = << "Ann" >>

\* The numeric outputs of the fold.
Numeric(t) ==
    [addedLines |-> t.addedLines, removedLines |-> t.removedLines,
     netLines |-> t.netLines, commitsByDate |-> t.commitsByDate]

Orderings(n) ==
    { f \in [1..n -> 1..n] : \A i \in 1..n, j \in 1..n : f[i] = f[j] => i = j }

\* The history text with its entries in the order f; the text before the
\* first sentinel stays in front.
ReorderEntries(text, f) ==
    LET fr == Fragments(text)
    IN Join(<< fr[1] >> \o [i \in 1..(Len(fr) - 1) |-> fr[f[i] + 1]], Sentinel)

\* An entry with the lines after its author line in the order g.
ReorderLines(frag, g) ==
    LET ls == EntryLines(frag)
    IN IF Len(ls) < 3 THEN frag
       ELSE << "\n" >>
            \o Join(<< ls[1], ls[2] >> \o [i \in 1..(Len(ls) - 2) |-> ls[g[i] + 2]], "\n")
            \o << "\n", "\n" >>

\* C19: folding the history text with its entries in any other order, or
\* with the lines of one entry in any other order, gives the same
\* addedLines, removedLines, netLines and commitsByDate.
C19_NumericOrderIndependent ==
    Folded =>
        LET fr == Fragments(output)
        IN /\ \A f \in Orderings(Len(fr) - 1) :
                Numeric(ParseAndFold(ReorderEntries(output, f))) = Numeric(totals)
           /\ \A k \in 2..Len(fr) :
                \A g \in Orderings(Len(EntryLines(fr[k])) - 2) :
                    Numeric(ParseAndFold(Join([fr EXCEPT ![k] = ReorderLines(fr[k], g)], Sentinel)))
                      = Numeric(totals)

\* What a call with these arguments returns when it runs alone and its
\* commands print the given texts: rev-parse (only without a branch
\* argument), git log, git branch, git branch -r; a missing listing text
\* is a listing that failed.
AloneResult(s, e, b, replies, off) ==
    LET r      == IF b = Absent THEN Tail(replies) ELSE replies
        cfg    == ConfigureDates(s, e, off)
        t      == ParseAndFold(r[1])
        sparse == SortLabels(DOMAIN t.commitsByDate)
    IN [branches |->
            IF Len(r) = 3
            THEN AddRemoteBranches(AddLocalBranches(EmptyMap, NonBlankLines(r[2]), 1),
                                   NonBlankLines(r[3]), 1)
            ELSE EmptyMap,
        authorNames |-> t.authorNames,
        addedLines |-> t.addedLines,
        removedLines |-> t.removedLines,
        netLines |-> t.netLines,
        commitsByDate |-> t.commitsByDate,
        dateList |-> IF cfg.dateList.null THEN sparse ELSE cfg.dateList.list,
        startDate |-> IF cfg.dateList.null /\ sparse /= << >> THEN sparse[1] ELSE cfg.startDate,
        endDate |-> IF cfg.dateList.null /\ sparse /= << >> THEN sparse[Len(sparse)]
                    ELSE cfg.endDate,
        branch |-> IF b = Absent THEN Trim(replies[1]) ELSE b]

\* Every returned invocation holds the result of running alone.
ReturnsAsAlone ==
    \A i \in CallIds :
        calls[i].pc = "returned" =>
            ResultOf(calls[i]) =
                AloneResult(calls[i].startDateArg, calls[i].endDateArg, calls[i].branchArg,
                            calls[i].replies, tz)

\* A step leaves every frame but one as it is, and a frame that has
\* returned or thrown as it is.
StepTouchesOneLiveFrame ==
    /\ \A i \in CallIds, j \in CallIds :
         (i /= j /\ calls'[i] /= calls[i]) => calls'[j] = calls[j]
    /\ \A i \in CallIds :
         calls[i].pc \in { "returned", "threw" } => calls'[i] = calls[i]

\* C20: with two invocations interleaved in every possible way, each one
\* that returns holds exactly the result it returns when run alone on the
\* same arguments and command outputs; no step of one changes a variable
\* of the other, and a returned result never changes afterwards.
C20_CallsDoNotInterfere ==
    [](ReturnsAsAlone) /\ [][StepTouchesOneLiveFrame]_vars

\* C20 witness: invocation 1 has returned Ann's totals for a dense range
\* while invocation 2, started without arguments, is between its two
\* listings with Bob's totals.
C20_Witness ==
    /\ calls[1].pc = "returned"
    /\ calls[1].startDateArg = << D1 >>
    /\ DOMAIN calls[1].totals.addedLines = { << "a@x" >> }
    /\ Len(calls[1].dateList.list) = 3
    /\ calls[2].pc = "getBranchesRemote"
    /\ calls[2].branchArg = Absent
    /\ DOMAIN calls[2].totals.addedLines = { << "b@x" >> }
    /\ calls[2].dateList.list = << << D3 >> >>

\* The first command of the call ended with 'fatal: not a git repository',
\* as every git command does in a directory without version-control
\* metadata.
PathIsNotARepository ==
    /\ rejections /= << >>
    /\ rejections[1].err = GitError(Fatal)
    /\ Len(cmds) = 1

\* C21: for a path that is not a repository the call fails with a
\* not-a-repository error, and fails before it has issued the
\* current-branch query, the existence check or the history query.
C21_NotARepositoryFirst ==
    PathIsNotARepository =>
        /\ pc = "threw"
        /\ thrown.kind = "NotARepository"
        /\ \A i \in 1..Len(cmds) : Rank(cmds[i]) \notin { 1, 2, 3 }

\* The invocation is over: its process was closed or could not start.
ExecOver == proc.state \in { "closed", "errored" }

\* C22: an invocation of executeGitCommand starts one process and, once
\* it is over, has settled its promise exactly once: rejected with
\* 'Git error: ' and everything the process wrote to standard error when
\* the status is not zero, resolved with everything it wrote to standard
\* output when the status is zero.
C22_SettlesExactlyOnce ==
    /\ proc.spawned <= 1
    /\ Len(proc.settlements) <= 1
    /\ (ExecOver => Len(proc.settlements) = 1)
    /\ (proc.state = "closed" /\ proc.run.code /= 0 =>
          proc.settlements =
            << [kind |-> "reject", value |-> << "Git error: " >> \o Concat(proc.run.err)] >>)
    /\ (proc.state = "closed" /\ proc.run.code = 0 =>
          proc.settlements = << [kind |-> "resolve", value |-> Concat(proc.run.out)] >>)

C24_CountedDatesOnAxis ==
    (Folded /\ DenseArgs
       /\ \A d \in DOMAIN totals.commitsByDate :
            /\ DayIndex(startDateArg[1]) <= DayIndex(d[1])
            /\ DayIndex(d[1]) <= DayIndex(endDateArg[1])) =>
        DOMAIN totals.commitsByDate \subseteq AxisLabels(dateList.list)

\* Exactly one of the two date arguments is a date and the other is
\* absent.
OneDateOnly ==
    \/ startDateArg \notin { Absent, All } /\ endDateArg = Absent
    \/ startDateArg = Absent /\ endDateArg \notin { Absent, All }

\* C25: with exactly one date the git log command carries no date cutoff,
\* the returned axis is the sparse one, and the labels and maps are those
\* of the history alone: the date given appears nowhere unless a commit
\* carries it.
C25_OneDateIsIgnored ==
    (PastDateSetup /\ OneDateOnly) =>
        /\ LogCmds /= {}
        /\ \A cmd \in LogCmds : ~HasOption(cmd, "--after=") /\ ~HasOption(cmd, "--before=")
        /\ (Returned =>
              /\ SparseAxisOf(output)
              /\ totals = ParseAndFold(output)
              /\ startDate = (IF dateList.list = << >> THEN << "Beginning" >>
                              ELSE dateList.list[1])
              /\ endDate = (IF dateList.list = << >> THEN << "Now" >>
                            ELSE dateList.list[Len(dateList.list)]))

\* C25 witness: start 2024-01-03 alone, a history whose only date is
\* 2024-01-01: that day is the axis and both labels.
C25_Witness ==
    /\ Returned
    /\ startDateArg = << D3 >> /\ endDateArg = Absent
    /\ dateList.list = << << D1 >> >>
    /\ startDate = << D1 >> /\ endDate = << D1 >>

\* C26: in sparse mode with at least one accepted entry the start label
\* is the first and the end label the last element of dateList, also for
\* start "all" with an end date.
C26_SparseLabelsFromAxis ==
    (Returned /\ ~DenseArgs /\ DOMAIN totals.commitsByDate /= {}) =>
        /\ ~dateList.null
        /\ dateList.list /= << >>
        /\ startDate = dateList.list[1]
        /\ endDate = dateList.list[Len(dateList.list)]

\* C26 witness: start "all", end 2024-01-03, commits on 2024-01-01 only:
\* the end label is 2024-01-01, not the end date given.
C26_Witness ==
    /\ Returned
    /\ startDateArg = All /\ endDateArg = << D3 >>
    /\ dateList.list = << << D1 >> >>
    /\ startDate = << D1 >>
    /\ endDate = << D1 >>

\* C27: at most one Git Stats panel exists at any time.
C27_AtMostOnePanel == Cardinality(ext.live) <= 1

\* C28: for each panel loadInitialData is called at most once.
C28_LoadStartedOncePerPanel == \A q \in PanelIds : ext.started[q] <= 1

\* C29: whenever a panel exists and its 'extension-ready' message has
\* been handled, the statistics of the initial load are eventually shown
\* in it (or the panel is closed first).
C29_InitialDataEventuallyLoaded ==
    \A q \in PanelIds :
        (q \in ext.live /\ ext.ready[q]) ~> (ext.loadedInto[q] \/ q \notin ext.live)

\* C30: with a single panel that stays open, once no 'refresh-stats'
\* request and no initial load is running, a panel that shows the
\* statistics of a request shows those of the request issued last.
C30_LatestRefreshWins ==
    (/\ ext.inflight = {}
     /\ \A k \in LoadIds : ext.loads[k] \in { "none", "done" }
     /\ ext.created = 1 /\ ext.live = { 1 }
     /\ ext.content[1].kind = "refresh") =>
        ext.content[1].req = ext.issued

====
